---- MODULE Spec2Model ----
(***************************************************************************)
(* A model of the InfiAgent core excerpts:                                 *)
(*   hierarchy_manager_core.py   HierarchyManager (the registry)           *)
(*   agent_executor_loop.py      AgentExecutor.run (the execution loop)    *)
(*   consolidation_mechanism.py  ThinkingAgent.analyze_first_thinking      *)
(*                                                                         *)
(* The registry's two persisted documents are the variables stack_file and *)
(* context_file.  Timestamps (start_time, thinking_updated_at) are left    *)
(* out of the records: no branch of the code reads them.                   *)
(***************************************************************************)
EXTENDS Naturals, Sequences, FiniteSets, TLC

VARIABLES
    stack_file,        \* the stack document: a list of agent entries
    context_file,      \* the shared-context document: current (hierarchy,
                       \* agents_status) and history
    task_complete,     \* the mark set by the task-completion check
    last_ret,          \* the value the last registry call returned
    n_push, n_update,  \* calls made so far by the arbitrary callers
    \* one AgentExecutor per executor e: the position of run and its fields
    pc,                   \* where run is
    outcome,              \* how run ended, "none" while it has not
    turn,                 \* the loop variable of line 35
    self_agent_id,        \* self.agent_id
    tool_call_counter,    \* self.tool_call_counter
    action_history,       \* self.action_history (the render history)
    action_history_fact,  \* self.action_history_fact (the fact history)
    latest_thinking,      \* self.latest_thinking
    first_thinking_done,  \* self.first_thinking_done
    llm_response,         \* llm_response.tool_calls of the current turn
    tc_index,             \* the position of the for loop of line 66
    result,               \* the value run returned
    thinking_failed,      \* whether some consolidation call did not succeed
    \* threads calling one HierarchyManager instance, statement by statement
    lock,                 \* self.lock: the thread holding it, or None
    t_pc,                 \* where each thread is in its call
    t_op,                 \* the call each thread is making
    t_stack,              \* each thread's local variable stack
    t_context,            \* each thread's local variable context
    n_calls,              \* calls the threads have made
    seq_stack,            \* the stack document of the calls run one by one
    seq_context           \* the context document of the calls run one by one

regVars == <<stack_file, context_file, task_complete, last_ret>>

cntVars == <<n_push, n_update>>

loopVars == <<pc, outcome, turn, self_agent_id, tool_call_counter, action_history,
              action_history_fact, latest_thinking, first_thinking_done,
              llm_response, tc_index, result, thinking_failed>>

concVars == <<lock, t_pc, t_op, t_stack, t_context, n_calls, seq_stack,
              seq_context>>

vars == <<regVars, cntVars, concVars, loopVars, concVars>>

(***************************************************************************)
(* Bounds of the model and the values inputs are drawn from.               *)
(***************************************************************************)
\* pushes and update_thinking calls the arbitrary callers make
MaxPushes == 3
MaxUpdates == 2

task_id == "t1"
ThinkingTexts == {"plan A", "plan B"}
FinalOutputs == {"done"}

None == "None"      \* Python's None
Absent == "<absent>" \* a key the dictionary does not hold

(***************************************************************************)
(* hashlib.md5(f"{agent_name}|{task_id}|{user_input}").hexdigest()[:12]    *)
(* tabulated for the names and inputs of the model with task_id "t1".      *)
(***************************************************************************)
AgentHash(agent_name, user_input) ==
    CASE agent_name = "planner" /\ user_input = "do X" -> "1638946b714f"
      [] agent_name = "planner" /\ user_input = "do Y" -> "08a467f6984c"
      [] agent_name = "coder"   /\ user_input = "do X" -> "f718e79451d4"
      [] agent_name = "coder"   /\ user_input = "do Y" -> "9ff9e1a672f1"

AgentId(agent_name, user_input) ==
    agent_name \o "_" \o AgentHash(agent_name, user_input)

Callers == {<<"planner", "do X">>, <<"planner", "do Y">>, <<"coder", "do X">>}

AgentIds == {AgentId(c[1], c[2]) : c \in Callers}

(***************************************************************************)
(* The documents after construction: an empty stack, an empty context.     *)
(***************************************************************************)
EmptyMap == [x \in {} |-> None]

\* hierarchy and agents_status are the two maps of context["current"];
\* history lists the sections that have been moved out of current
EmptyContext ==
    [hierarchy |-> EmptyMap, agents_status |-> EmptyMap, history |-> <<>>]

(***************************************************************************)
(* push_agent, as one critical section.                                    *)
(***************************************************************************)
StackTopParent(stack) ==
    IF stack # <<>> THEN stack[Len(stack)].agent_id ELSE None

StackTopLevel(stack) ==
    IF stack # <<>> THEN stack[Len(stack)].level + 1 ELSE 0

\* an agent_id that also depends on where the stack stands
AgentEntry_LevelId(agent_name, user_input, stack) ==
    [agent_id   |-> AgentId(agent_name, user_input) \o "_"
                        \o ToString(StackTopLevel(stack)),
     agent_name |-> agent_name,
     parent_id  |-> StackTopParent(stack),
     level      |-> StackTopLevel(stack),
     user_input |-> user_input]

\* lines 41-44 and 58-65
AgentEntry(agent_name, user_input, stack) ==
    [agent_id   |-> AgentId(agent_name, user_input),
     agent_name |-> agent_name,
     parent_id  |-> StackTopParent(stack),
     level      |-> StackTopLevel(stack),
     user_input |-> user_input]

\* lines 72-77: the edge is created only when the id has none
PushHierarchyEdge(hierarchy, entry) ==
    IF entry.agent_id \notin DOMAIN hierarchy
    THEN (entry.agent_id :> [parent   |-> entry.parent_id,
                              children |-> <<>>,
                              level    |-> entry.level]) @@ hierarchy
    ELSE hierarchy

InList(x, list) == \E k \in 1..Len(list) : list[k] = x

\* a children list that takes the id on every push
PushChild_Always(hierarchy, entry) ==
    IF entry.parent_id # None /\ entry.parent_id \in DOMAIN hierarchy
    THEN [hierarchy EXCEPT ![entry.parent_id].children =
                              Append(@, entry.agent_id)]
    ELSE hierarchy

\* lines 80-82: the parent's children list, without duplicates
PushChild(hierarchy, entry) ==
    IF entry.parent_id # None /\ entry.parent_id \in DOMAIN hierarchy
    THEN IF ~InList(entry.agent_id, hierarchy[entry.parent_id].children)
         THEN [hierarchy EXCEPT ![entry.parent_id].children =
                                   Append(@, entry.agent_id)]
         ELSE hierarchy
    ELSE hierarchy

\* lines 85-93: the status record is written anew on every push
PushStatus(entry) ==
    [agent_name      |-> entry.agent_name,
     status          |-> "running",
     initial_input   |-> entry.user_input,
     parent_id       |-> entry.parent_id,
     level           |-> entry.level,
     latest_thinking |-> "",
     final_output    |-> Absent]

push_agent(stack, context, agent_name, user_input) ==
    LET entry == AgentEntry(agent_name, user_input, stack)
        h1 == PushHierarchyEdge(context.hierarchy, entry)
        h2 == PushChild(h1, entry)
        st == (entry.agent_id :> PushStatus(entry)) @@ context.agents_status
    IN [stack   |-> Append(stack, entry),
        context |-> [context EXCEPT !.hierarchy = h2, !.agents_status = st],
        ret     |-> entry.agent_id]

(***************************************************************************)
(* pop_agent, as one critical section, and the completion check it ends    *)
(* with.                                                                   *)
(***************************************************************************)
\* a pop that removes one entry of the agent_id, the last one pushed
PopStack_OneEntry(stack, agent_id) ==
    IF \E k \in 1..Len(stack) : stack[k].agent_id = agent_id
    THEN LET last == CHOOSE k \in 1..Len(stack) :
                         /\ stack[k].agent_id = agent_id
                         /\ \A j \in (k + 1)..Len(stack) :
                                stack[j].agent_id # agent_id
         IN SubSeq(stack, 1, last - 1) \o SubSeq(stack, last + 1, Len(stack))
    ELSE stack

\* a pop that unwinds the stack down to the agent's first entry, taking the
\* entries pushed above it along
PopStack_Truncate(stack, agent_id) ==
    IF \E k \in 1..Len(stack) : stack[k].agent_id = agent_id
    THEN LET first == CHOOSE k \in 1..Len(stack) :
                          /\ stack[k].agent_id = agent_id
                          /\ \A j \in 1..(k - 1) : stack[j].agent_id # agent_id
         IN SubSeq(stack, 1, first - 1)
    ELSE stack

\* line 109
PopStack(stack, agent_id) ==
    SelectSeq(stack, LAMBDA entry : entry.agent_id # agent_id)

\* a pop that writes a status record for an id that has none
PopStatus_Upsert(agents_status, agent_id, final_output) ==
    IF agent_id \in DOMAIN agents_status
    THEN [agents_status EXCEPT ![agent_id].status = "completed",
                               ![agent_id].final_output = final_output]
    ELSE (agent_id :> [agent_name      |-> None,
                       status          |-> "completed",
                       initial_input   |-> None,
                       parent_id       |-> None,
                       level           |-> 0,
                       latest_thinking |-> "",
                       final_output    |-> final_output]) @@ agents_status

\* lines 114-116
PopStatus(agents_status, agent_id, final_output) ==
    IF agent_id \in DOMAIN agents_status
    THEN [agents_status EXCEPT ![agent_id].status = "completed",
                               ![agent_id].final_output = final_output]
    ELSE agents_status

\* a pop that also forgets the agent's HierarchyEdge
pop_agent_DropsEdge(stack, context, agent_id, final_output) ==
    [stack   |-> PopStack(stack, agent_id),
     context |-> [context EXCEPT
                     !.hierarchy =
                         [a \in DOMAIN context.hierarchy \ {agent_id} |->
                             context.hierarchy[a]],
                     !.agents_status = PopStatus(@, agent_id, final_output)]]

\* lines 105-118
pop_agent(stack, context, agent_id, final_output) ==
    [stack   |-> PopStack(stack, agent_id),
     context |-> [context EXCEPT !.agents_status =
                     PopStatus(@, agent_id, final_output)]]

\* _check_and_complete_if_all_done, the condition: every known AgentStatus
\* is completed
AllDone(context) ==
    \A a \in DOMAIN context.agents_status :
        context.agents_status[a].status = "completed"

\* _check_and_complete_if_all_done, the document it leaves.  Its body is not
\* part of the excerpt; pop_agent's docstring (lines 102-103) gives its
\* effect: when all agents complete, current moves to history.  The section
\* is moved whole, its edges and its status records with it, and current
\* starts empty again; a current that holds no agent is not moved.
CheckAndComplete(context) ==
    IF AllDone(context) /\ DOMAIN context.agents_status # {}
    THEN [hierarchy     |-> EmptyMap,
          agents_status |-> EmptyMap,
          history       |-> Append(context.history,
                                [hierarchy     |-> context.hierarchy,
                                 agents_status |-> context.agents_status])]
    ELSE context

(***************************************************************************)
(* update_thinking, as one critical section.                               *)
(***************************************************************************)
\* a thinking field kept as a log of every text
update_thinking_Appends(context, agent_id, thinking) ==
    IF agent_id \in DOMAIN context.agents_status
    THEN [context EXCEPT !.agents_status[agent_id].latest_thinking =
                             IF @ = "" THEN thinking ELSE @ \o "\n" \o thinking]
    ELSE context

\* lines 129-135
update_thinking(context, agent_id, thinking) ==
    IF agent_id \in DOMAIN context.agents_status
    THEN [context EXCEPT !.agents_status[agent_id].latest_thinking = thinking]
    ELSE context

(***************************************************************************)
(* AgentExecutor: configuration and the values its collaborators return.   *)
(***************************************************************************)
thinking_interval == 10

\* self.max_turns is 10000000 in the code; the model runs a short loop
max_turns == 4

\* the longest tool_calls list the reasoning collaborator returns
MaxBatch == 4

\* two executors of one task, built with the same agent_name and given the
\* same user_input; SpecLoop runs the first alone
Executors == {"E1", "E2"}

ExecName(e) == "coder"

ExecInput(e) == "do X"

\* a dictionary result: status, output, error_information (a key or Absent)
ToolResult(output) ==
    [status |-> "success", output |-> output, error_information |-> Absent]

\* tool_result.get("output", "")
GetOutput(tool_result) ==
    IF tool_result.output = Absent THEN "" ELSE tool_result.output

\* tool_calls lists: ordinary calls, at most one final_output, at most one
\* call after it
Repeat(x, n) == [k \in 1..n |-> x]

Batches ==
    {Repeat("file_read", n) : n \in 0..MaxBatch}
    \cup {Repeat("file_read", n) \o <<"final_output">> : n \in 0..(MaxBatch - 1)}
    \cup {Repeat("file_read", n) \o <<"final_output", "file_read">> :
              n \in 0..(MaxBatch - 2)}

ToolResultsOf(tool_name) ==
    IF tool_name = "final_output"
    THEN {ToolResult("done"), ToolResult(Absent)}
    ELSE {ToolResult("ok")}

\* the responses of the consolidation's own reasoning call
ThinkingResponses ==
    {[status |-> "success", output |-> "plan A", error_information |-> Absent],
     [status |-> "success", output |-> "plan B", error_information |-> Absent],
     [status |-> "error", output |-> Absent, error_information |-> "no output"]}

\* consolidation_mechanism.py lines 106-109 (the texts in ASCII)
analyze_first_thinking(response) ==
    IF response.status = "success"
    THEN "[initial plan]\n\n" \o response.output
    ELSE "[initial plan failed: " \o response.error_information \o "]"

IsSuccessText(thinking_result) ==
    \E r \in ThinkingResponses :
        r.status = "success" /\ thinking_result = analyze_first_thinking(r)

\* what _trigger_thinking returns: the analysis text, or nothing
TriggerThinkingReturns ==
    {analyze_first_thinking(r) : r \in ThinkingResponses} \cup {None}

\* a test that drops every thinking result
Truthy_Never(thinking_result) == FALSE

\* Python truth of a thinking result
Truthy(thinking_result) == thinking_result # None /\ thinking_result # ""

\* lines 104-107
ErrorResult(thinking) ==
    [status |-> "error",
     output |-> IF thinking # ""
                THEN "error during execution\n\nprogress so far:\n" \o thinking
                ELSE "error during execution",
     error_information |-> Absent]

\* lines 112-116
TimeoutResult ==
    [status |-> "error",
     output |-> "max turns exceeded",
     error_information |-> "Max turns " \o ToString(max_turns) \o " exceeded"]

\* repr() of a thinking text: a line break is written as the two characters
\* backslash and n.  The texts of the model hold no quote and no backslash;
\* a success text has the two line breaks of line 107, a failure text none.
ReprThinking(thinking) ==
    IF \E r \in ThinkingResponses :
           r.status = "success" /\ thinking = analyze_first_thinking(r)
    THEN LET r == CHOOSE x \in ThinkingResponses :
                      x.status = "success" /\ thinking = analyze_first_thinking(x)
         IN "[initial plan]\\n\\n" \o r.output
    ELSE thinking

\* repr() of the output of a result: the output of line 106 with a
\* consolidated state has three line breaks before the thinking text; the
\* other outputs of the model hold none
ReprOutput(output) ==
    IF \E t \in TriggerThinkingReturns : t # None /\ output = ErrorResult(t).output
    THEN LET t == CHOOSE x \in TriggerThinkingReturns :
                      x # None /\ output = ErrorResult(x).output
         IN "'error during execution\\n\\nprogress so far:\\n"
                \o ReprThinking(t) \o "'"
    ELSE "'" \o output \o "'"

\* str(error_result): the dictionary printed with the repr of its values
Str(res) ==
    "{'status': '" \o res.status \o "', 'output': " \o ReprOutput(res.output)
        \o (IF res.error_information = Absent THEN ""
            ELSE ", 'error_information': '" \o res.error_information \o "'")
        \o "}"

NoResult == [status |-> None, output |-> None, error_information |-> None]

\* no executor is running
LoopIdle ==
    /\ pc = [e \in Executors |-> "idle"]
    /\ outcome = [e \in Executors |-> "none"]
    /\ turn = [e \in Executors |-> 0]
    /\ self_agent_id = [e \in Executors |-> None]
    /\ tool_call_counter = [e \in Executors |-> 0]
    /\ action_history = [e \in Executors |-> <<>>]
    /\ action_history_fact = [e \in Executors |-> <<>>]
    /\ latest_thinking = [e \in Executors |-> ""]
    /\ first_thinking_done = [e \in Executors |-> FALSE]
    /\ llm_response = [e \in Executors |-> <<>>]
    /\ tc_index = [e \in Executors |-> 1]
    /\ result = [e \in Executors |-> NoResult]
    /\ thinking_failed = [e \in Executors |-> FALSE]

(***************************************************************************)
(* Threads sharing one HierarchyManager instance.                          *)
(***************************************************************************)
Threads == {"T1", "T2"}

\* calls the threads make in all
MaxCalls == 3

NoOp == [kind |-> None, agent_name |-> None, user_input |-> None,
         agent_id |-> None, text |-> None]

PushCall(agent_name, user_input) ==
    [kind |-> "push", agent_name |-> agent_name, user_input |-> user_input,
     agent_id |-> None, text |-> None]

PopCall(agent_id, final_output) ==
    [kind |-> "pop", agent_name |-> None, user_input |-> None,
     agent_id |-> agent_id, text |-> final_output]

UpdateCall(agent_id, thinking) ==
    [kind |-> "update", agent_name |-> None, user_input |-> None,
     agent_id |-> agent_id, text |-> thinking]

Calls ==
    {PushCall(c[1], c[2]) : c \in Callers}
    \cup {PopCall(a, o) : a \in AgentIds, o \in FinalOutputs}
    \cup {UpdateCall(a, "plan A") : a \in AgentIds}

\* no thread is calling
ConcIdle ==
    /\ lock = None
    /\ t_pc = [t \in Threads |-> "idle"]
    /\ t_op = [t \in Threads |-> NoOp]
    /\ t_stack = [t \in Threads |-> <<>>]
    /\ t_context = [t \in Threads |-> EmptyContext]
    /\ n_calls = 0
    /\ seq_stack = <<>>
    /\ seq_context = EmptyContext

(***************************************************************************)
(* The registry driven by arbitrary callers: any push, any pop (of any id, *)
(* in any order), any update_thinking.                                     *)
(***************************************************************************)
RegInit ==
    /\ stack_file = <<>>
    /\ context_file = EmptyContext
    /\ task_complete = FALSE
    /\ last_ret = None
    /\ n_push = 0
    /\ n_update = 0
    /\ LoopIdle
    /\ ConcIdle

Push(agent_name, user_input) ==
    /\ n_push < MaxPushes
    /\ n_push' = n_push + 1
    /\ LET r == push_agent(stack_file, context_file, agent_name, user_input)
       IN /\ stack_file' = r.stack
          /\ context_file' = r.context
          /\ last_ret' = r.ret
    /\ UNCHANGED <<task_complete, n_update, loopVars, concVars>>

Pop(agent_id, final_output) ==
    /\ LET r == pop_agent(stack_file, context_file, agent_id, final_output)
       IN /\ stack_file' = r.stack
          /\ context_file' = CheckAndComplete(r.context)
          /\ task_complete' = (task_complete \/ AllDone(r.context))
    /\ last_ret' = None
    /\ UNCHANGED <<cntVars, concVars, loopVars>>

UpdateThinking(agent_id, thinking) ==
    /\ context_file' = update_thinking(context_file, agent_id, thinking)
    /\ last_ret' = None
    /\ n_update < MaxUpdates
    /\ n_update' = n_update + 1
    /\ UNCHANGED <<stack_file, task_complete, n_push, loopVars, concVars>>

RegNext ==
    \/ \E c \in Callers : Push(c[1], c[2])
    \/ \E a \in AgentIds, o \in FinalOutputs : Pop(a, o)
    \/ \E a \in AgentIds, t \in ThinkingTexts : UpdateThinking(a, t)

SpecRegistry == RegInit /\ [][RegNext]_vars

(***************************************************************************)
(* AgentExecutor.run.  One action per collaborator call; a registry call   *)
(* is one critical section and happens inside the step that makes it.      *)
(***************************************************************************)
start_turn == 0

\* the registry before run is called: empty, or holding the running parent
\* that spawns the executor
ParentPushed == push_agent(<<>>, EmptyContext, "planner", "do X")

\* the executors in started are about to call run, the others are not used
LoopInitOf(started) ==
    /\ \/ stack_file = <<>> /\ context_file = EmptyContext
       \/ stack_file = ParentPushed.stack /\ context_file = ParentPushed.context
    /\ task_complete = FALSE
    /\ last_ret = None
    /\ n_push = 0
    /\ n_update = 0
    /\ pc = [e \in Executors |-> IF e \in started THEN "start" ELSE "idle"]
    /\ outcome = [e \in Executors |-> "none"]
    /\ turn = [e \in Executors |-> start_turn]
    /\ self_agent_id = [e \in Executors |-> None]
    /\ tool_call_counter = [e \in Executors |-> 0]
    /\ action_history = [e \in Executors |-> <<>>]
    /\ action_history_fact = [e \in Executors |-> <<>>]
    /\ latest_thinking = [e \in Executors |-> ""]
    /\ first_thinking_done = [e \in Executors |-> FALSE]
    /\ llm_response = [e \in Executors |-> <<>>]
    /\ tc_index = [e \in Executors |-> 1]
    /\ result = [e \in Executors |-> NoResult]
    /\ thinking_failed = [e \in Executors |-> FALSE]
    /\ ConcIdle

LoopInit == LoopInitOf({"E1"})

\* line 24
Register(e) ==
    /\ pc[e] = "start"
    /\ LET r == push_agent(stack_file, context_file, ExecName(e), ExecInput(e))
       IN /\ stack_file' = r.stack
          /\ context_file' = r.context
          /\ last_ret' = r.ret
          /\ self_agent_id' = [self_agent_id EXCEPT ![e] = r.ret]
    /\ pc' = [pc EXCEPT ![e] = "first_thinking"]
    /\ UNCHANGED <<task_complete, cntVars, concVars, outcome, turn, tool_call_counter,
                   action_history, action_history_fact, latest_thinking,
                   first_thinking_done, llm_response, tc_index, result,
                   thinking_failed>>

\* line 27
NeedsFirstThinking(e) == start_turn = 0 /\ ~first_thinking_done[e]

\* lines 27-32 when _trigger_thinking returns thinking_result
FirstThinking(e, thinking_result) ==
    /\ pc[e] = "first_thinking"
    /\ NeedsFirstThinking(e)
    /\ IF Truthy(thinking_result)
       THEN /\ latest_thinking' = [latest_thinking EXCEPT ![e] = thinking_result]
            /\ first_thinking_done' = [first_thinking_done EXCEPT ![e] = TRUE]
            /\ context_file' =
                   update_thinking(context_file, self_agent_id[e], thinking_result)
            /\ last_ret' = None
       ELSE UNCHANGED <<latest_thinking, first_thinking_done, context_file,
                        last_ret>>
    /\ thinking_failed' =
           [thinking_failed EXCEPT ![e] = @ \/ ~IsSuccessText(thinking_result)]
    /\ pc' = [pc EXCEPT ![e] = "loop_head"]
    /\ UNCHANGED <<stack_file, task_complete, cntVars, concVars, outcome, turn,
                   self_agent_id, tool_call_counter, action_history,
                   action_history_fact, llm_response, tc_index, result>>

\* line 28 raising: the call is outside the try of line 36
FirstThinkingRaises(e) ==
    /\ pc[e] = "first_thinking"
    /\ NeedsFirstThinking(e)
    /\ pc' = [pc EXCEPT ![e] = "raised"]
    /\ outcome' = [outcome EXCEPT ![e] = "Raised"]
    /\ thinking_failed' = [thinking_failed EXCEPT ![e] = TRUE]
    /\ UNCHANGED <<regVars, cntVars, concVars, turn, self_agent_id, tool_call_counter,
                   action_history, action_history_fact, latest_thinking,
                   first_thinking_done, llm_response, tc_index, result>>

\* line 35: the next turn, or lines 111-117 when range() is exhausted
LoopHead(e) ==
    /\ pc[e] = "loop_head"
    /\ IF turn[e] < max_turns
       THEN /\ pc' = [pc EXCEPT ![e] = "save_state"]
            /\ UNCHANGED <<outcome, result>>
       ELSE /\ pc' = [pc EXCEPT ![e] = "returned"]
            /\ outcome' = [outcome EXCEPT ![e] = "TimedOut"]
            /\ result' = [result EXCEPT ![e] = TimeoutResult]
    /\ UNCHANGED <<regVars, cntVars, concVars, turn, self_agent_id, tool_call_counter,
                   action_history, action_history_fact, latest_thinking,
                   first_thinking_done, llm_response, tc_index, thinking_failed>>

\* lines 73-77; the arguments the collaborator gave are the call's serial
ActionRecord(tool_name, serial, tool_result) ==
    [tool_name |-> tool_name, arguments |-> serial, result |-> tool_result]

\* the record that stands for the records a compression has replaced; it
\* carries the serial of the last of them
CompressedRecord(history) ==
    ActionRecord("history_summary", history[Len(history)].arguments,
                 ToolResult("summary"))

\* _compress_action_history_if_needed: its body is not part of the excerpt.
\* Lines 17 and 40-41 give its effect: it may compress or clear
\* action_history, and touches nothing else.  When it does so is not given,
\* so every call may leave the render history as it is, clear it, or replace
\* its records by one record that sums them up.
CompressActionHistory(history) ==
    {history, <<>>}
    \cup (IF Len(history) >= 2 THEN {<<CompressedRecord(history)>>} ELSE {})

\* lines 38-51: _save_state, _compress_action_history_if_needed, build_context
TurnPrologue(e) ==
    /\ pc[e] = "save_state"
    /\ pc' = [pc EXCEPT ![e] = "chat"]
    /\ \E compressed \in CompressActionHistory(action_history[e]) :
           action_history' = [action_history EXCEPT ![e] = compressed]
    /\ UNCHANGED <<regVars, cntVars, concVars, outcome, turn, self_agent_id,
                   tool_call_counter, action_history_fact,
                   latest_thinking, first_thinking_done, llm_response, tc_index,
                   result, thinking_failed>>

\* lines 57-63: the reasoning collaborator returns tool_calls
Chat(e, tool_calls) ==
    /\ pc[e] = "chat"
    /\ llm_response' = [llm_response EXCEPT ![e] = tool_calls]
    /\ tc_index' = [tc_index EXCEPT ![e] = 1]
    /\ pc' = [pc EXCEPT ![e] = IF tool_calls = <<>> THEN "consolidate" ELSE "tools"]
    /\ UNCHANGED <<regVars, cntVars, concVars, outcome, turn, self_agent_id,
                   tool_call_counter, action_history, action_history_fact,
                   latest_thinking, first_thinking_done, result, thinking_failed>>

\* a final_output call that is never recognised
IsFinalOutput_Never(tool_name) == FALSE

\* line 87
IsFinalOutput(tool_name) == tool_name = "final_output"

\* the terminal call returning before it is recorded
RecordFact_NotTerminal(fact, action_record) ==
    IF action_record.tool_name = "final_output" THEN fact
    ELSE Append(fact, action_record)

\* line 80
RecordFact(fact, action_record) == Append(fact, action_record)

\* lines 66-89: one pass of the for loop, tool_executor.execute returning
ExecuteTool(e, tool_result) ==
    /\ pc[e] = "tools"
    /\ tc_index[e] <= Len(llm_response[e])
    /\ LET tool_name == llm_response[e][tc_index[e]]
           action_record ==
               ActionRecord(tool_name, tool_call_counter[e] + 1, tool_result)
       IN /\ tool_result \in ToolResultsOf(tool_name)
          /\ action_history_fact' =
                 [action_history_fact EXCEPT ![e] = RecordFact(@, action_record)]
          /\ action_history' =
                 [action_history EXCEPT ![e] = Append(@, action_record)]
          /\ tool_call_counter' = [tool_call_counter EXCEPT ![e] = @ + 1]
          /\ IF IsFinalOutput(tool_name)
             THEN LET r == pop_agent(stack_file, context_file, self_agent_id[e],
                                     GetOutput(tool_result))
                  IN /\ stack_file' = r.stack
                     /\ context_file' = CheckAndComplete(r.context)
                     /\ task_complete' = (task_complete \/ AllDone(r.context))
                     /\ last_ret' = None
                     /\ result' = [result EXCEPT ![e] = tool_result]
                     /\ pc' = [pc EXCEPT ![e] = "returned"]
                     /\ outcome' = [outcome EXCEPT ![e] = "Completed"]
                     /\ UNCHANGED tc_index
             ELSE /\ tc_index' = [tc_index EXCEPT ![e] = @ + 1]
                  /\ pc' = [pc EXCEPT ![e] =
                               IF tc_index[e] = Len(llm_response[e])
                               THEN "consolidate" ELSE "tools"]
                  /\ UNCHANGED <<regVars, result, outcome>>
    /\ UNCHANGED <<cntVars, concVars, turn, self_agent_id, latest_thinking,
                   first_thinking_done, llm_response, thinking_failed>>

\* line 92
ConsolidationDue(counter) == counter % thinking_interval = 0

\* lines 92-100 when _trigger_thinking returns thinking_result
Consolidate(e, thinking_result) ==
    /\ pc[e] = "consolidate"
    /\ ConsolidationDue(tool_call_counter[e])
    /\ IF Truthy(thinking_result)
       THEN /\ latest_thinking' = [latest_thinking EXCEPT ![e] = thinking_result]
            /\ context_file' =
                   update_thinking(context_file, self_agent_id[e], thinking_result)
            /\ last_ret' = None
            /\ action_history' = [action_history EXCEPT ![e] = <<>>]
       ELSE UNCHANGED <<latest_thinking, context_file, last_ret,
                        action_history>>
    /\ thinking_failed' =
           [thinking_failed EXCEPT ![e] = @ \/ ~IsSuccessText(thinking_result)]
    /\ turn' = [turn EXCEPT ![e] = @ + 1]
    /\ pc' = [pc EXCEPT ![e] = "loop_head"]
    /\ UNCHANGED <<stack_file, task_complete, cntVars, concVars, outcome,
                   self_agent_id, tool_call_counter, action_history_fact,
                   first_thinking_done, llm_response, tc_index, result>>

\* line 92 when the counter is no multiple of the interval
NoConsolidation(e) ==
    /\ pc[e] = "consolidate"
    /\ ~ConsolidationDue(tool_call_counter[e])
    /\ turn' = [turn EXCEPT ![e] = @ + 1]
    /\ pc' = [pc EXCEPT ![e] = "loop_head"]
    /\ UNCHANGED <<regVars, cntVars, concVars, outcome, self_agent_id, tool_call_counter,
                   action_history, action_history_fact, latest_thinking,
                   first_thinking_done, llm_response, tc_index, result,
                   thinking_failed>>

\* a collaborator call inside the try of line 36 is in progress
InTry(e) ==
    \/ pc[e] \in {"save_state", "chat"}
    \/ pc[e] = "tools" /\ tc_index[e] <= Len(llm_response[e])
    \/ pc[e] = "consolidate" /\ ConsolidationDue(tool_call_counter[e])

\* an error result that leaves the consolidated state out
HandlerResult_NoThinking(e) == ErrorResult("")

\* line 106
HandlerResult(e) == ErrorResult(latest_thinking[e])

\* line 102 is "except Exception": a call inside the try that raises a
\* BaseException which is no Exception (KeyboardInterrupt, SystemExit) is
\* not handled.  The exception leaves run: no pop, no result.
Interrupt(e) ==
    /\ InTry(e)
    /\ pc' = [pc EXCEPT ![e] = "raised"]
    /\ outcome' = [outcome EXCEPT ![e] = "Raised"]
    /\ thinking_failed' =
           [thinking_failed EXCEPT ![e] = @ \/ pc[e] = "consolidate"]
    /\ UNCHANGED <<regVars, cntVars, concVars, turn, self_agent_id,
                   tool_call_counter, action_history, action_history_fact,
                   latest_thinking, first_thinking_done, llm_response,
                   tc_index, result>>

\* lines 102-109: the call raises an Exception and the handler runs
Fault(e) ==
    /\ InTry(e)
    /\ LET error_result == HandlerResult(e)
           r == pop_agent(stack_file, context_file, self_agent_id[e],
                          Str(error_result))
       IN /\ stack_file' = r.stack
          /\ context_file' = CheckAndComplete(r.context)
          /\ task_complete' = (task_complete \/ AllDone(r.context))
          /\ last_ret' = None
          /\ result' = [result EXCEPT ![e] = error_result]
    /\ pc' = [pc EXCEPT ![e] = "returned"]
    /\ outcome' = [outcome EXCEPT ![e] = "Failed"]
    /\ thinking_failed' =
           [thinking_failed EXCEPT ![e] = @ \/ pc[e] = "consolidate"]
    /\ UNCHANGED <<cntVars, concVars, turn, self_agent_id, tool_call_counter,
                   action_history, action_history_fact, latest_thinking,
                   first_thinking_done, llm_response, tc_index>>

LoopNext ==
    \E e \in Executors :
        \/ Register(e)
        \/ \E v \in TriggerThinkingReturns : FirstThinking(e, v)
        \/ FirstThinkingRaises(e)
        \/ LoopHead(e)
        \/ TurnPrologue(e)
        \/ \E b \in Batches : Chat(e, b)
        \/ \E r \in ToolResultsOf("final_output") \cup ToolResultsOf("file_read") :
               ExecuteTool(e, r)
        \/ \E v \in TriggerThinkingReturns : Consolidate(e, v)
        \/ NoConsolidation(e)
        \/ Fault(e)
        \/ Interrupt(e)

SpecLoop == LoopInit /\ [][LoopNext]_vars

\* run is sequential code whose collaborators return or raise: while a
\* statement is left to execute, one is executed
SpecLoopFair == SpecLoop /\ WF_vars(LoopNext)

(***************************************************************************)
(* Two executors running concurrently against one HierarchyManager.  They  *)
(* have the same agent_name and user_input, hence the same agent_id.  The  *)
(* collaborators answer from small sets: a response holds no call, one     *)
(* ordinary call or the terminal call.                                     *)
(***************************************************************************)
PairInit == LoopInitOf(Executors)

PairBatches == {<<>>, <<"file_read">>, <<"final_output">>}

PairThinking == {analyze_first_thinking(r) : r \in {x \in ThinkingResponses :
                                                      x.output = "plan A"}}

PairNext ==
    \E e \in Executors :
        \/ Register(e)
        \/ \E v \in PairThinking : FirstThinking(e, v)
        \/ LoopHead(e)
        \/ TurnPrologue(e)
        \/ \E b \in PairBatches : Chat(e, b)
        \/ ExecuteTool(e, ToolResult("ok"))
        \/ ExecuteTool(e, ToolResult("done"))
        \/ \E v \in PairThinking : Consolidate(e, v)
        \/ NoConsolidation(e)
        \/ Fault(e)
        \/ Interrupt(e)

SpecPair == PairInit /\ [][PairNext]_vars

(***************************************************************************)
(* The registry called by several threads, one statement at a time.  A     *)
(* call's critical section is "with self.lock:"; seq_stack and seq_context *)
(* are the documents the same calls give when run one after the other, in  *)
(* the order in which they took the lock.                                  *)
(***************************************************************************)
\* a lock that never excludes
LockFree_Always(held) == TRUE

\* threading.Lock: acquired only when no thread holds it
LockFree(held) == held = None

FirstStep(call) ==
    CASE call.kind = "push" -> "push_load_stack"
      [] call.kind = "pop" -> "pop_load_stack"
      [] call.kind = "update" -> "update_load_context"

SeqStack(stack, context, call) ==
    CASE call.kind = "push" ->
             push_agent(stack, context, call.agent_name, call.user_input).stack
      [] call.kind = "pop" -> PopStack(stack, call.agent_id)
      [] call.kind = "update" -> stack

SeqContext(stack, context, call) ==
    CASE call.kind = "push" ->
             push_agent(stack, context, call.agent_name, call.user_input).context
      [] call.kind = "pop" ->
             CheckAndComplete(
                 pop_agent(stack, context, call.agent_id, call.text).context)
      [] call.kind = "update" ->
             update_thinking(context, call.agent_id, call.text)

\* lines 39, 105, 129: with self.lock
Acquire(t, call) ==
    /\ t_pc[t] = "idle"
    /\ n_calls < MaxCalls
    /\ LockFree(lock)
    /\ lock' = t
    /\ t_op' = [t_op EXCEPT ![t] = call]
    /\ t_pc' = [t_pc EXCEPT ![t] = FirstStep(call)]
    /\ n_calls' = n_calls + 1
    /\ seq_stack' = SeqStack(seq_stack, seq_context, call)
    /\ seq_context' = SeqContext(seq_stack, seq_context, call)
    /\ UNCHANGED <<regVars, cntVars, loopVars, t_stack, t_context>>

\* the end of the with block
Release(t) ==
    /\ lock' = None
    /\ t_pc' = [t_pc EXCEPT ![t] = "idle"]

\* lines 47, 106: stack = self._load_stack()
LoadStack(t) ==
    /\ t_pc[t] \in {"push_load_stack", "pop_load_stack"}
    /\ t_stack' = [t_stack EXCEPT ![t] = stack_file]
    /\ t_pc' = [t_pc EXCEPT ![t] =
                   IF t_op[t].kind = "push" THEN "push_load_context"
                   ELSE "pop_save_stack"]
    /\ UNCHANGED <<regVars, cntVars, loopVars, lock, t_op, t_context, n_calls,
                   seq_stack, seq_context>>

\* lines 48, 113, 130: context = self._load_context()
LoadContext(t) ==
    /\ t_pc[t] \in {"push_load_context", "pop_load_context",
                    "update_load_context"}
    /\ t_context' = [t_context EXCEPT ![t] = context_file]
    /\ t_pc' = [t_pc EXCEPT ![t] =
                   CASE t_op[t].kind = "push" -> "push_save_stack"
                     [] t_op[t].kind = "pop" -> "pop_save_context"
                     [] t_op[t].kind = "update" -> "update_save_context"]
    /\ UNCHANGED <<regVars, cntVars, loopVars, lock, t_op, t_stack, n_calls,
                   seq_stack, seq_context>>

\* lines 50-69 of push_agent: self._save_stack(stack)
PushSaveStack(t) ==
    /\ t_pc[t] = "push_save_stack"
    /\ stack_file' = push_agent(t_stack[t], t_context[t], t_op[t].agent_name,
                                t_op[t].user_input).stack
    /\ t_pc' = [t_pc EXCEPT ![t] = "push_save_context"]
    /\ UNCHANGED <<context_file, task_complete, last_ret, cntVars, loopVars,
                   lock, t_op, t_stack, t_context, n_calls, seq_stack,
                   seq_context>>

\* lines 71-96 of push_agent: self._save_context(context); return agent_id
PushSaveContext(t) ==
    /\ t_pc[t] = "push_save_context"
    /\ LET r == push_agent(t_stack[t], t_context[t], t_op[t].agent_name,
                           t_op[t].user_input)
       IN /\ context_file' = r.context
          /\ last_ret' = r.ret
    /\ Release(t)
    /\ UNCHANGED <<stack_file, task_complete, cntVars, loopVars, t_op, t_stack,
                   t_context, n_calls, seq_stack, seq_context>>

\* lines 109-110 of pop_agent
PopSaveStack(t) ==
    /\ t_pc[t] = "pop_save_stack"
    /\ stack_file' = PopStack(t_stack[t], t_op[t].agent_id)
    /\ t_pc' = [t_pc EXCEPT ![t] = "pop_load_context"]
    /\ UNCHANGED <<context_file, task_complete, last_ret, cntVars, loopVars,
                   lock, t_op, t_stack, t_context, n_calls, seq_stack,
                   seq_context>>

\* lines 114-118 of pop_agent
PopSaveContext(t) ==
    /\ t_pc[t] = "pop_save_context"
    /\ context_file' = [t_context[t] EXCEPT !.agents_status =
                           PopStatus(@, t_op[t].agent_id, t_op[t].text)]
    /\ t_pc' = [t_pc EXCEPT ![t] = "pop_check"]
    /\ UNCHANGED <<stack_file, task_complete, last_ret, cntVars, loopVars,
                   lock, t_op, t_stack, t_context, n_calls, seq_stack,
                   seq_context>>

\* line 121 of pop_agent: self._check_and_complete_if_all_done()
PopCheck(t) ==
    /\ t_pc[t] = "pop_check"
    /\ context_file' = CheckAndComplete(context_file)
    /\ task_complete' = (task_complete \/ AllDone(context_file))
    /\ last_ret' = None
    /\ Release(t)
    /\ UNCHANGED <<stack_file, cntVars, loopVars, t_op, t_stack,
                   t_context, n_calls, seq_stack, seq_context>>

\* lines 132-135 of update_thinking
UpdateSaveContext(t) ==
    /\ t_pc[t] = "update_save_context"
    /\ context_file' =
           update_thinking(t_context[t], t_op[t].agent_id, t_op[t].text)
    /\ last_ret' = None
    /\ Release(t)
    /\ UNCHANGED <<stack_file, task_complete, cntVars, loopVars, t_op, t_stack,
                   t_context, n_calls, seq_stack, seq_context>>

ConcNext ==
    \E t \in Threads :
        \/ \E call \in Calls : Acquire(t, call)
        \/ LoadStack(t)
        \/ LoadContext(t)
        \/ PushSaveStack(t)
        \/ PushSaveContext(t)
        \/ PopSaveStack(t)
        \/ PopSaveContext(t)
        \/ PopCheck(t)
        \/ UpdateSaveContext(t)

SpecConc == RegInit /\ [][ConcNext]_vars

(***************************************************************************)
(* The claims.                                                             *)
(***************************************************************************)
\* context["current"]["hierarchy"] and context["current"]["agents_status"]
Hierarchy == context_file.hierarchy

AgentsStatus == context_file.agents_status

\* The sections of the context document, oldest first: the sections moved
\* to history, then current.
Sections ==
    Append(context_file.history,
           [hierarchy     |-> context_file.hierarchy,
            agents_status |-> context_file.agents_status])

\* the map named field of the first n sections laid over one another, a
\* newer section's entry covering an older one's
RECURSIVE Overlay(_, _)
Overlay(field, n) ==
    IF n = 0 THEN EmptyMap
    ELSE Sections[n][field] @@ Overlay(field, n - 1)

\* What a reader of the whole context document finds under each agent_id:
\* the entry of the newest section that has one.  While nothing has been
\* moved to history these are the maps of current.
ReadableHierarchy == Overlay("hierarchy", Len(Sections))

ReadableStatus == Overlay("agents_status", Len(Sections))

OnStack(a) == \E k \in 1..Len(stack_file) : stack_file[k].agent_id = a

\* C1: every entry on the stack has level 0 when its parent_id is null, and
\* otherwise its level is one more than the level its parent's HierarchyEdge
\* records and, while the parent is on the stack, one more than the level of
\* one of the parent's stack entries.  (Stated as claimed; the code breaks it.)
C1_StackLevelInvariant ==
    \A k \in 1..Len(stack_file) :
        LET entry == stack_file[k] IN
        IF entry.parent_id = None
        THEN entry.level = 0
        ELSE /\ entry.parent_id \in DOMAIN Hierarchy
             /\ entry.level = Hierarchy[entry.parent_id].level + 1
             /\ OnStack(entry.parent_id) =>
                    \E j \in 1..Len(stack_file) :
                        /\ stack_file[j].agent_id = entry.parent_id
                        /\ entry.level = stack_file[j].level + 1

\* C2: the status of an agent_id changes only from running to completed: an
\* agent_id whose status is completed keeps it in every later step.  The
\* status is the one a reader of the context document finds, so a record
\* moved to history with its section still counts.  (Stated as claimed; the
\* code breaks it.)
C2_StatusMonotone ==
    [][\A a \in DOMAIN ReadableStatus :
           ReadableStatus[a].status = "completed" =>
               /\ a \in DOMAIN ReadableStatus'
               /\ ReadableStatus'[a].status = "completed"]_vars

\* C3: while every consolidation call has succeeded, at the start of every
\* turn the render history is no longer than the number of tool calls since
\* the last multiple of the interval and is shorter than the interval.
\* (Stated as claimed; the code breaks it.)
C3_BoundedRenderHistory ==
    \A e \in Executors :
        (pc[e] = "save_state" /\ ~thinking_failed[e]) =>
            /\ Len(action_history[e]) <= tool_call_counter[e] % thinking_interval
            /\ Len(action_history[e]) < thinking_interval

\* C4: the fact history never gets shorter in any step of the loop, and
\* between tool invocations its length is tool_call_counter.
C4_AuditCompleteness ==
    /\ [](\A e \in Executors :
             Len(action_history_fact[e]) = tool_call_counter[e])
    /\ [][\A e \in Executors :
             /\ Len(action_history_fact'[e]) >= Len(action_history_fact[e])
             /\ SubSeq(action_history_fact'[e], 1, Len(action_history_fact[e]))
                    = action_history_fact[e]]_vars

\* C4's case: a consolidation has emptied the render history and the fact
\* history still holds every call
C4_Witness ==
    \E e \in Executors :
        /\ Len(action_history_fact[e]) >= thinking_interval
        /\ action_history[e] = <<>>
        /\ pc[e] = "loop_head"

\* C5: the calls of concurrent threads exclude each other: at most one
\* thread is inside a call, and whenever no thread is inside a call the two
\* documents are those of the same calls run one after the other.
C5_MutualExclusion ==
    /\ \A t1, t2 \in Threads :
           (t_pc[t1] # "idle" /\ t_pc[t2] # "idle") => t1 = t2
    /\ (\A t \in Threads : t_pc[t] = "idle") =>
           /\ stack_file = seq_stack
           /\ context_file = seq_context

\* C5's case: the threads have made three calls, which pushed, updated and
\* popped
C5_Witness ==
    /\ n_calls >= 3
    /\ \A t \in Threads : t_pc[t] = "idle"
    /\ \E a \in DOMAIN ReadableStatus :
           /\ ReadableStatus[a].status = "completed"
           /\ ReadableStatus[a].latest_thinking # ""

\* C6: no exception leaves run: run ends only by returning a result with a
\* status tag and an output string.  (Stated as claimed; the code breaks it.)
C6_NoExceptionEscapes ==
    \A e \in Executors :
        /\ outcome[e] # "Raised"
        /\ pc[e] = "returned" => result[e].status # None /\ result[e].output # None

\* C7: when run has ended in Completed or by a fault after the agent
\* registered itself, the agent_id has no stack entry and its status is
\* completed.  (Stated as claimed; the code breaks it.)
C7_PoppedWhenEnded ==
    \A e \in Executors :
        (outcome[e] \in {"Completed", "Failed", "Raised"}
             /\ self_agent_id[e] # None) =>
            /\ ~OnStack(self_agent_id[e])
            /\ ReadableStatus[self_agent_id[e]].status = "completed"

\* C8: a response of the forced reasoning call with zero tool invocations
\* ends run in Failed.  (Stated as claimed; the code breaks it.)
C8_EmptyResponseIsFault ==
    [][\A e \in Executors :
           (pc[e] = "chat" /\ pc'[e] # "chat" /\ llm_response'[e] = <<>>) =>
               outcome'[e] = "Failed"]_vars

\* C9: once a final_output call is recorded, it is the last record of both
\* histories, run has returned its result in Completed, the agent is off the
\* stack and completed with that call's output (in current, or in history
\* when the pop completed the task), and the loop is where that call left
\* it: no later call of the batch and no consolidation ran.
C9_TerminalAction ==
    \A e \in Executors :
        \A k \in 1..Len(action_history_fact[e]) :
            action_history_fact[e][k].tool_name = "final_output" =>
                /\ k = Len(action_history_fact[e])
                /\ pc[e] = "returned"
                /\ outcome[e] = "Completed"
                /\ result[e] = action_history_fact[e][k].result
                /\ llm_response[e][tc_index[e]] = "final_output"
                /\ action_history[e] # <<>>
                /\ action_history[e][Len(action_history[e])]
                       = action_history_fact[e][k]
                /\ ~OnStack(self_agent_id[e])
                /\ ReadableStatus[self_agent_id[e]].status = "completed"
                /\ ReadableStatus[self_agent_id[e]].final_output
                       = (IF result[e].output = Absent THEN ""
                          ELSE result[e].output)

\* C9's case: final_output is the tenth call, with a call after it in its
\* batch
C9_Witness ==
    \E e \in Executors :
        /\ outcome[e] = "Completed"
        /\ tool_call_counter[e] = thinking_interval
        /\ tc_index[e] < Len(llm_response[e])

\* C10: a run that ended in Failed returned an error result whose output
\* carries the consolidated state when there is one, popped the agent with
\* that result (its status record, in current or in history, is completed
\* with it), and takes no further step.
C10_FaultHandler ==
    /\ [](\A e \in Executors :
             outcome[e] = "Failed" =>
                 /\ pc[e] = "returned"
                 /\ result[e].status = "error"
                 /\ latest_thinking[e] # "" =>
                        result[e].output =
                            "error during execution\n\nprogress so far:\n"
                                \o latest_thinking[e]
                 /\ ~OnStack(self_agent_id[e])
                 /\ ReadableStatus[self_agent_id[e]].status = "completed"
                 /\ ReadableStatus[self_agent_id[e]].final_output = Str(result[e]))
    /\ [][\A e \in Executors :
             outcome[e] = "Failed" =>
                 /\ turn'[e] = turn[e]
                 /\ pc'[e] = pc[e]
                 /\ result'[e] = result[e]
                 /\ tool_call_counter'[e] = tool_call_counter[e]]_vars

\* C10's case: a fault after a periodic consolidation that succeeded, in an
\* agent that has a parent
C10_Witness ==
    \E e \in Executors :
        /\ outcome[e] = "Failed"
        /\ IsSuccessText(latest_thinking[e])
        /\ tool_call_counter[e] > thinking_interval
        /\ ReadableStatus[self_agent_id[e]].parent_id # None

\* C11: a run that entered the loop ends, and ends in exactly one of
\* Completed, Failed and TimedOut, which it then keeps.  When the turn
\* counter is at the ceiling the next step ends run in TimedOut; that step
\* returns a result carrying the ceiling and leaves both registry documents
\* as they were, so the agent keeps its stack entry and its running status.
\* (Stated as claimed; a call of the loop body that raises past line 102
\* breaks it.)
C11_LoopEndsInOneOutcome ==
    /\ [](\A e \in Executors :
             /\ pc[e] = "returned" =>
                    outcome[e] \in {"Completed", "Failed", "TimedOut"}
             /\ outcome[e] = "TimedOut" =>
                    /\ pc[e] = "returned"
                    /\ turn[e] = max_turns
                    /\ result[e].error_information =
                           "Max turns " \o ToString(max_turns) \o " exceeded"
                    /\ OnStack(self_agent_id[e])
                    /\ AgentsStatus[self_agent_id[e]].status = "running")
    /\ [][\A e \in Executors :
             /\ (pc[e] = "loop_head" /\ turn[e] = max_turns /\ pc'[e] # pc[e]) =>
                    outcome'[e] = "TimedOut"
             /\ (outcome[e] = "none" /\ outcome'[e] = "TimedOut") =>
                    /\ stack_file' = stack_file
                    /\ context_file' = context_file
             /\ outcome[e] # "none" => outcome'[e] = outcome[e]]_vars
    /\ \A e \in Executors : (pc[e] = "loop_head") ~> (pc[e] = "returned")

\* C12: the result of a run that ended at the turn ceiling is told from a
\* Failed result by its status tag, and its tag is not the error tag.
\* (Stated as claimed; the code breaks it.)
C12_TimedOutDistinct ==
    \A e \in Executors :
        outcome[e] = "TimedOut" =>
            /\ result[e].status # "error"
            /\ result[e].status # ErrorResult(latest_thinking[e]).status

\* C13: every agent_id with at least one entry on the stack has an
\* AgentStatus record (the document holds one record per id) and the
\* record's status is running.
C13_ActiveIsRunning ==
    \A k \in 1..Len(stack_file) :
        /\ stack_file[k].agent_id \in DOMAIN AgentsStatus
        /\ AgentsStatus[stack_file[k].agent_id].status = "running"

\* C13's case: an id was pushed twice and popped, which took both of its
\* entries off the stack, while another id is still on the stack
C13_Witness ==
    /\ n_push = 3
    /\ Len(stack_file) = 1
    /\ \E a \in DOMAIN AgentsStatus :
           /\ AgentsStatus[a].status = "completed"
           /\ AgentsStatus[a].parent_id = a
           /\ ~OnStack(a)

C15_IdDeterminism ==
    /\ [](\A k, j \in 1..Len(stack_file) :
             (/\ stack_file[k].agent_name = stack_file[j].agent_name
              /\ stack_file[k].user_input = stack_file[j].user_input) =>
                 stack_file[k].agent_id = stack_file[j].agent_id)
    /\ [](\A k \in 1..Len(stack_file) :
             stack_file[k].agent_id =
                 AgentId(stack_file[k].agent_name, stack_file[k].user_input))
    /\ [][Len(stack_file') = Len(stack_file) + 1 =>
             LET top == stack_file'[Len(stack_file')] IN
             /\ last_ret' = top.agent_id
             /\ \A a \in DOMAIN AgentsStatus :
                    (/\ AgentsStatus[a].agent_name = top.agent_name
                     /\ AgentsStatus[a].initial_input = top.user_input) =>
                        last_ret' = a]_vars

\* C15's case: one name and input pushed at two levels of the stack, under
\* different parents, the later push being the last call
C15_Witness ==
    \E k, j \in 1..Len(stack_file) :
        /\ k < j
        /\ stack_file[k].agent_name = stack_file[j].agent_name
        /\ stack_file[k].user_input = stack_file[j].user_input
        /\ stack_file[k].level # stack_file[j].level
        /\ stack_file[k].parent_id # stack_file[j].parent_id
        /\ j = Len(stack_file)
        /\ last_ret = stack_file[j].agent_id

\* C16: no HierarchyEdge's children list holds an agent_id twice, and a push
\* of an id that its parent's children list already holds leaves that list
\* as it was.
C16_ChildrenNoDuplicates ==
    /\ [](\A a \in DOMAIN Hierarchy :
             \A k, j \in 1..Len(Hierarchy[a].children) :
                 Hierarchy[a].children[k] = Hierarchy[a].children[j] => k = j)
    /\ [][Len(stack_file') = Len(stack_file) + 1 =>
             LET top == stack_file'[Len(stack_file')] IN
             (/\ top.parent_id \in DOMAIN Hierarchy
              /\ InList(top.agent_id, Hierarchy[top.parent_id].children)) =>
                 Hierarchy'[top.parent_id].children
                     = Hierarchy[top.parent_id].children]_vars

\* C16's case: one name and input pushed three times in a row, the second
\* and the third time under the same parent, which lists it once
C16_Witness ==
    /\ Len(stack_file) = 3
    /\ \A k \in 1..3 : stack_file[k].agent_id = stack_file[1].agent_id
    /\ Hierarchy[stack_file[1].agent_id].children = <<stack_file[1].agent_id>>

\* an agent_id the registry has never seen
Unknown(a) ==
    /\ a \notin DOMAIN AgentsStatus
    /\ a \notin DOMAIN Hierarchy
    /\ ~OnStack(a)

\* C17: while a thread is inside update_thinking or pop_agent of an unknown
\* agent_id, no step changes the stack document or the context document;
\* the pop goes on from its context save to the completion check, and either
\* call ends by leaving its critical section (it returns, it does not raise).
C17_UnknownIdIgnored ==
    [][\A t \in Threads :
          (/\ t_pc[t] # "idle"
           /\ t_op[t].kind \in {"pop", "update"}
           /\ Unknown(t_op[t].agent_id)) =>
              /\ stack_file' = stack_file
              /\ context_file' = context_file
              /\ (t_pc[t] = "pop_save_context" /\ t_pc'[t] # t_pc[t]) =>
                     t_pc'[t] = "pop_check"
              /\ (t_pc[t] \in {"pop_check", "update_save_context"}
                      /\ t_pc'[t] # t_pc[t]) =>
                     /\ t_pc'[t] = "idle"
                     /\ lock' = None
                     /\ last_ret' = None
              /\ t_pc'[t] = "idle" =>
                     t_pc[t] \in {"pop_check", "update_save_context"}]_vars

\* C17's case: a pop of an unknown id has reached the completion check while
\* another agent is on the stack and running
C17_Witness ==
    \E t \in Threads :
        /\ t_pc[t] = "pop_check"
        /\ Unknown(t_op[t].agent_id)
        /\ stack_file # <<>>
        /\ \E a \in DOMAIN AgentsStatus : AgentsStatus[a].status = "running"

\* the counter reached or passed a multiple of the interval in this turn:
\* the multiples below it before the turn's calls are fewer than after them
CrossedBoundary(e) ==
    (tool_call_counter[e] - Len(llm_response[e])) \div thinking_interval
        < tool_call_counter[e] \div thinking_interval

\* C18: when the calls of a turn made tool_call_counter reach or pass a
\* multiple of the interval and none of them was the terminal action, the
\* loop invokes a consolidation at the end of the turn.  (Stated as claimed;
\* the code breaks it.)
C18_ConsolidationOnCrossing ==
    \A e \in Executors :
        (pc[e] = "consolidate" /\ CrossedBoundary(e)) =>
            ConsolidationDue(tool_call_counter[e])

\* C19: periodic consolidation is invoked only at a counter that is a
\* positive multiple of the interval and that the calls of this turn
\* reached, so not at 0 and not again in a turn without tool calls.
\* (Stated as claimed; the code breaks it.)
C19_ConsolidationOncePerMultiple ==
    \A e \in Executors :
        (pc[e] = "consolidate" /\ ConsolidationDue(tool_call_counter[e])) =>
            /\ tool_call_counter[e] > 0
            /\ llm_response[e] # <<>>

\* the text is what a consolidation that failed returns
IsFailureText(thinking_result) ==
    \E r \in ThinkingResponses :
        r.status # "success" /\ thinking_result = analyze_first_thinking(r)

\* C20: the consolidated state and the thinking published in the registry
\* are never the text of a failed consolidation, and the render history is
\* emptied only by a step that leaves the text of a successful consolidation
\* as the consolidated state.  (Stated as claimed; the code breaks it.)
C20_FailureKeepsState ==
    /\ [](\A e \in Executors :
             /\ ~IsFailureText(latest_thinking[e])
             /\ self_agent_id[e] \in DOMAIN AgentsStatus =>
                    ~IsFailureText(AgentsStatus[self_agent_id[e]].latest_thinking))
    /\ [][\A e \in Executors :
             (action_history[e] # <<>> /\ action_history'[e] = <<>>) =>
                 /\ pc[e] = "consolidate"
                 /\ IsSuccessText(latest_thinking'[e])]_vars

\* C21: the render history is never longer than the fact history and is
\* its tail; every step either appends one and the same record to both,
\* or empties the render history and leaves the fact history, or changes
\* neither.  So the two are equal until the first reset, and after a reset
\* the render history is the records appended since, in order.  (Stated as
\* claimed; a compression at line 42 breaks it.)
C21_RenderIsTailOfFact ==
    /\ [](\A e \in Executors :
             LET fact == action_history_fact[e]
                 render == action_history[e] IN
             /\ Len(fact) >= Len(render)
             /\ render = SubSeq(fact, Len(fact) - Len(render) + 1, Len(fact)))
    /\ [][\A e \in Executors :
             \/ /\ action_history'[e] = action_history[e]
                /\ action_history_fact'[e] = action_history_fact[e]
             \/ /\ action_history'[e] = <<>>
                /\ action_history_fact'[e] = action_history_fact[e]
             \/ /\ Len(action_history'[e]) = Len(action_history[e]) + 1
                /\ action_history'[e] =
                       Append(action_history[e],
                              action_history'[e][Len(action_history'[e])])
                /\ action_history_fact'[e] =
                       Append(action_history_fact[e],
                              action_history'[e][Len(action_history'[e])])]_vars

\* C22: a pop (the registry call that is neither a push nor an
\* update_thinking) of agent_id a takes exactly the entries of a off the
\* stack and keeps the others in their order, marks a completed with the
\* final_output given, and leaves every other status and every
\* HierarchyEdge as it was: parent and children of a are untouched.  Records
\* are the ones a reader of the context document finds: when the pop is the
\* one that completes the task they are found in history, as they were.
C22_PopFrame ==
    [][(n_push' = n_push /\ n_update' = n_update) =>
          \E a \in AgentIds, o \in FinalOutputs :
              /\ stack_file' =
                     SelectSeq(stack_file, LAMBDA entry : entry.agent_id # a)
              /\ ReadableHierarchy' = ReadableHierarchy
              /\ DOMAIN ReadableStatus' = DOMAIN ReadableStatus
              /\ \A b \in DOMAIN ReadableStatus \ {a} :
                     ReadableStatus'[b] = ReadableStatus[b]
              /\ a \in DOMAIN ReadableStatus =>
                     /\ ReadableStatus'[a].status = "completed"
                     /\ ReadableStatus'[a].final_output = o
                     /\ ReadableStatus'[a].latest_thinking
                            = ReadableStatus[a].latest_thinking
                     /\ ReadableStatus'[a].parent_id = ReadableStatus[a].parent_id]_vars

\* C22's case: a parent was popped from under its child, which is still on
\* the stack and running
C22_Witness ==
    /\ Len(stack_file) = 1
    /\ stack_file[1].parent_id \in DOMAIN AgentsStatus
    /\ stack_file[1].parent_id # stack_file[1].agent_id
    /\ AgentsStatus[stack_file[1].parent_id].status = "completed"
    /\ AgentsStatus[stack_file[1].agent_id].status = "running"

\* C23: an update_thinking call leaves the stack and every HierarchyEdge as
\* they were and changes at most one status record, in which it replaces
\* latest_thinking by the text of the call (no earlier text is kept) and
\* nothing else.
C23_UpdateThinkingFrame ==
    [][n_update' = n_update + 1 =>
          /\ stack_file' = stack_file
          /\ Hierarchy' = Hierarchy
          /\ DOMAIN AgentsStatus' = DOMAIN AgentsStatus
          /\ \E a \in AgentIds, text \in ThinkingTexts :
                 /\ \A b \in DOMAIN AgentsStatus \ {a} :
                        AgentsStatus'[b] = AgentsStatus[b]
                 /\ a \in DOMAIN AgentsStatus =>
                        AgentsStatus'[a] =
                            [AgentsStatus[a] EXCEPT !.latest_thinking = text]]_vars

\* C23's case: two calls were made and two agents, one running and one
\* completed, hold the two texts
C23_Witness ==
    /\ n_update = 2
    /\ \E a, b \in DOMAIN AgentsStatus :
           /\ AgentsStatus[a].latest_thinking = "plan A"
           /\ AgentsStatus[b].latest_thinking = "plan B"
           /\ AgentsStatus[a].status = "running"
           /\ AgentsStatus[b].status = "completed"

\* C24: run first pushes the agent, then makes the initial consolidation
\* call, once, and only after it returned enters the loop, whose first
\* reasoning call follows the turn's prologue.  The initial consolidation
\* leaves both histories and tool_call_counter as they were, and the text it
\* produced is the consolidated state and is published in the registry.
C24_InitOrder ==
    /\ [](\A e \in Executors :
             /\ pc[e] \in {"first_thinking", "loop_head", "save_state", "chat"} =>
                    self_agent_id[e] \in DOMAIN AgentsStatus
             /\ (pc[e] \in {"save_state", "chat"} /\ turn[e] = 0) =>
                    /\ tool_call_counter[e] = 0
                    /\ action_history[e] = <<>>)
    /\ [][\A e \in Executors :
             /\ (pc[e] = "start" /\ pc'[e] # "start") =>
                    /\ pc'[e] = "first_thinking"
                    /\ stack_file' # <<>>
                    /\ stack_file'[Len(stack_file')].agent_id = self_agent_id'[e]
                    /\ AgentsStatus'[self_agent_id'[e]].status = "running"
             /\ pc'[e] = "first_thinking" =>
                    pc[e] \in {"start", "first_thinking"}
             /\ (pc[e] = "first_thinking" /\ pc'[e] # "first_thinking") =>
                    /\ pc'[e] \in {"loop_head", "raised"}
                    /\ tool_call_counter'[e] = tool_call_counter[e]
                    /\ action_history'[e] = action_history[e]
                    /\ action_history_fact'[e] = action_history_fact[e]
                    /\ (pc'[e] = "loop_head" /\ ~thinking_failed'[e]) =>
                           /\ IsSuccessText(latest_thinking'[e])
                           /\ first_thinking_done'[e]
                           /\ AgentsStatus'[self_agent_id[e]].latest_thinking
                                  = latest_thinking'[e]
             /\ (pc'[e] = "loop_head" /\ pc[e] # "loop_head") =>
                    pc[e] \in {"first_thinking", "consolidate"}
             /\ (pc'[e] = "save_state" /\ pc[e] # "save_state") =>
                    pc[e] = "loop_head"
             /\ (pc'[e] = "chat" /\ pc[e] # "chat") => pc[e] = "save_state"]_vars

\* C24's case: the first reasoning call is about to be made by an agent
\* that has a parent, after an initial consolidation that succeeded
C24_Witness ==
    \E e \in Executors :
        /\ pc[e] = "chat"
        /\ turn[e] = 0
        /\ first_thinking_done[e]
        /\ IsSuccessText(latest_thinking[e])
        /\ AgentsStatus[self_agent_id[e]].latest_thinking = latest_thinking[e]
        /\ AgentsStatus[self_agent_id[e]].parent_id # None

\* C25: the hierarchy has no loop of length one: no agent_id is in its own
\* children list, and no stack entry or status record names its own
\* agent_id as parent.  (Stated as claimed; the code breaks it.)
C25_NoSelfParent ==
    /\ \A a \in DOMAIN Hierarchy : ~InList(a, Hierarchy[a].children)
    /\ \A a \in DOMAIN Hierarchy : Hierarchy[a].parent # a
    /\ \A k \in 1..Len(stack_file) :
           stack_file[k].parent_id # stack_file[k].agent_id
    /\ \A a \in DOMAIN AgentsStatus : AgentsStatus[a].parent_id # a

\* C26: the parent and the level of every HierarchyEdge are those of the
\* id's status record, and an id is in the children list of P only if its
\* own edge names P as parent.  (Stated as claimed; the code breaks it.)
C26_EdgeMatchesStatus ==
    /\ \A a \in DOMAIN Hierarchy :
           a \in DOMAIN AgentsStatus =>
               /\ Hierarchy[a].parent = AgentsStatus[a].parent_id
               /\ Hierarchy[a].level = AgentsStatus[a].level
    /\ \A p \in DOMAIN Hierarchy :
           \A k \in 1..Len(Hierarchy[p].children) :
               LET c == Hierarchy[p].children[k] IN
               c \in DOMAIN Hierarchy /\ Hierarchy[c].parent = p

\* run has pushed the agent and has not returned or raised
Running(e) ==
    pc[e] \in {"first_thinking", "loop_head", "save_state", "chat", "tools",
               "consolidate"}

\* C27: while an executor is in Running, its agent_id has a stack entry and
\* its status is running, whatever another executor of the same agent_name
\* and user_input does.  (Stated as claimed; the code breaks it.)
C27_RunningIsRegistered ==
    \A e \in Executors :
        Running(e) =>
            /\ OnStack(self_agent_id[e])
            /\ AgentsStatus[self_agent_id[e]].status = "running"

\* C28: at every point inside a registry call, where a crash would leave the
\* two documents as they are on disk, every agent_id of the stack document
\* has a HierarchyEdge and a status record saying running in the context
\* document, and every agent_id whose status is running has a stack entry.
\* (Stated as claimed; the code breaks it.)
C28_CrashConsistent ==
    /\ \A k \in 1..Len(stack_file) :
           /\ stack_file[k].agent_id \in DOMAIN Hierarchy
           /\ stack_file[k].agent_id \in DOMAIN AgentsStatus
           /\ AgentsStatus[stack_file[k].agent_id].status = "running"
    /\ \A a \in DOMAIN AgentsStatus :
           AgentsStatus[a].status = "running" => OnStack(a)

====
